---- MODULE Spec2Model ----
(***************************************************************************)
(* A model of echemdb.cv.database.Database: a list of data packages and a  *)
(* bibliography index, with sorted iteration, lookup by identifier,        *)
(* filtering by a predicate, the bibliography view, and plotting.          *)
(***************************************************************************)
EXTENDS Integers, Sequences, FiniteSets, TLC

\* Longest package list handed to the constructor.
MaxLen == 3
\* Longest iterable of bibliography records handed to the constructor.
MaxBib == 2
\* Most changes the caller makes to the list it handed over.
MaxMutations == 2
\* Longest package list of the plotting scenario.
MaxPlotLen == 12
\* The entry count above which plot refuses to draw without force_plot.
PlotThreshold == 10

\* Names of the first resource of a package; Python compares them with <.
Names == {1, 2}
\* Citation keys of packages and of bibliography records.
Keys == {1, 2}

\* A data package, as far as Database reads it: resources[0].name and the
\* citation key of its source.
Packages == [name : Names, citation_key : Keys]
\* A bibliography record (a pybtex Entry), as far as Database reads it.
Records == [key : Keys]
\* Python's None.
None == [none |-> TRUE]

\* What a predicate does on one entry: return a value or raise.
Outcomes == {"True", "False", "AttributeError", "KeyError", "ValueError", "TypeError"}
\* A filter predicate, by what it does on an entry of each of the names
\* it is called on.
Predicates(names) == [names -> Outcomes]

VARIABLES
    data_packages,  \* the caller's list object handed to Database(...)
    indexes,        \* the BibliographyData objects, by identity
    db,             \* the Database object the caller holds
    last,           \* the last call and what it returned or raised
    mutations       \* how often the caller has changed data_packages

vars == <<data_packages, indexes, db, last, mutations>>

----------------------------------------------------------------------------
\* Sequences

Front(s) == SubSeq(s, 1, Len(s) - 1)
Last(s) == s[Len(s)]

SeqsUpTo(S, n) == UNION {[1..k -> S] : k \in 0..n}

RECURSIVE Insert(_, _)
\* p inserted behind every element whose name is not greater: stable.
Insert(s, p) ==
    IF s = <<>> THEN <<p>>
    ELSE IF p.name < Head(s).name THEN <<p>> \o s
    ELSE <<Head(s)>> \o Insert(Tail(s), p)

\* The packages in the order they are stored: the sort left out.
sorted_unsorted(s) == s

RECURSIVE sorted(_)
\* sorted(self._packages, key=lambda p: p.resources[0].name)
sorted(s) == IF s = <<>> THEN <<>> ELSE Insert(sorted(Front(s)), Last(s))

----------------------------------------------------------------------------
\* Entry (echemdb.cv.entry)

Entry(package, bibliography) == [package |-> package, bibliography |-> bibliography]

\* entry.identifier
identifier(entry) == entry.package.name

\* entry.source.citation_key
citation_key(entry) == entry.package.citation_key

----------------------------------------------------------------------------
\* Database.__init__

RECURSIVE BibliographyData(_)
\* BibliographyData(entries={entry.key: entry for entry in bibliography})
BibliographyData(records) ==
    IF records = <<>> THEN [k \in {} |-> None]
    ELSE LET d == BibliographyData(Front(records))
             r == Last(records)
         IN  [k \in DOMAIN d \cup {r.key} |-> IF k = r.key THEN r ELSE d[k]]

\* The arguments of the constructor. data_packages is the caller's list
\* (by reference) or a fresh list no one else holds; bibliography is None,
\* an iterable of records or an index object.
RefArg == [kind |-> "ref"]
OwnArg(items) == [kind |-> "own", items |-> items]
NoneArg == [kind |-> "none"]
IterableArg(records) == [kind |-> "iterable", records |-> records]
IndexArg(ref) == [kind |-> "index", ref |-> ref]

\* The constructor keeping a copy of the caller's list, list(data_packages).
Database__init__copy(heap, packages, bibliography) ==
    LET b1 == IF bibliography.kind = "none" THEN IterableArg(<<>>) ELSE bibliography
        pk == IF packages.kind = "ref" THEN OwnArg(data_packages) ELSE packages
    IN  IF b1.kind = "iterable"
        THEN [heap |-> Append(heap, BibliographyData(b1.records)),
              self |-> [packages |-> pk, bibliography |-> Len(heap) + 1]]
        ELSE [heap |-> heap,
              self |-> [packages |-> pk, bibliography |-> b1.ref]]

\* Database(data_packages, bibliography): the new object and the heap of
\* index objects after the call.
Database__init__(heap, packages, bibliography) ==
    LET b1 == IF bibliography.kind = "none" THEN IterableArg(<<>>) ELSE bibliography
    IN  IF b1.kind = "iterable"
        THEN [heap |-> Append(heap, BibliographyData(b1.records)),
              self |-> [packages |-> packages, bibliography |-> Len(heap) + 1]]
        ELSE [heap |-> heap,
              self |-> [packages |-> packages, bibliography |-> b1.ref]]

\* self._packages, read through the reference.
PackagesOf(self) ==
    IF self.packages.kind = "ref" THEN data_packages ELSE self.packages.items

----------------------------------------------------------------------------
\* Database.__iter__

get_bibliography(self, package) ==
    LET bib == citation_key(Entry(package, None))
        entries == indexes[self.bibliography]
    IN  IF bib \in DOMAIN entries THEN entries[bib] ELSE None

Database__iter__(self) ==
    LET s == sorted(PackagesOf(self))
    IN  [i \in 1..Len(s) |-> Entry(s[i], get_bibliography(self, s[i]))]

\* The names of the entries of self.
NamesOf(self) == {PackagesOf(self)[i].name : i \in 1..Len(PackagesOf(self))}

\* Database.__len__
Database__len__(self) == Len(PackagesOf(self))

----------------------------------------------------------------------------
\* Database.__getitem__

\* __getitem__ without the check for more than one match.
Database__getitem__first(self, id) ==
    LET entries == SelectSeq(Database__iter__(self), LAMBDA e : identifier(e) = id)
    IN  IF Len(entries) = 0
        THEN [kind |-> "raise", error |-> "KeyError", message |-> "No database entry with identifier", identifier |-> id]
        ELSE [kind |-> "return", value |-> entries[1]]

\* __getitem__ over entries built without their bibliography.
Database__getitem__unlinked(self, id) ==
    LET entries == SelectSeq(Database__iter__(self), LAMBDA e : identifier(e) = id)
    IN  IF Len(entries) = 0
        THEN [kind |-> "raise", error |-> "KeyError", message |-> "No database entry with identifier", identifier |-> id]
        ELSE IF Len(entries) > 1
        THEN [kind |-> "raise", error |-> "KeyError", message |-> "The database has more than one entry with identifier", identifier |-> id]
        ELSE [kind |-> "return", value |-> Entry(entries[1].package, None)]

Database__getitem__(self, id) ==
    LET entries == SelectSeq(Database__iter__(self), LAMBDA e : identifier(e) = id)
    IN  IF Len(entries) = 0
        THEN [kind |-> "raise", error |-> "KeyError", message |-> "No database entry with identifier", identifier |-> id]
        ELSE IF Len(entries) > 1
        THEN [kind |-> "raise", error |-> "KeyError", message |-> "The database has more than one entry with identifier", identifier |-> id]
        ELSE [kind |-> "return", value |-> entries[1]]

----------------------------------------------------------------------------
\* Database.filter

\* The exceptions catching_predicate swallows.
Caught == {"KeyError", "AttributeError"}

\* predicate(entry): predicates read the entry's name.
Call(predicate, entry) == predicate[entry.package.name]

\* catching_predicate with except AttributeError alone.
catching_predicate_attribute(predicate, entry) ==
    LET r == Call(predicate, entry)
    IN  IF r = "AttributeError" THEN [result |-> "False", logged |-> 1]
        ELSE [result |-> r, logged |-> 0]

\* catching_predicate with except Exception.
catching_predicate_exception(predicate, entry) ==
    LET r == Call(predicate, entry)
    IN  IF r \notin {"True", "False"} THEN [result |-> "False", logged |-> 1]
        ELSE [result |-> r, logged |-> 0]

\* catching_predicate(entry): what it returns or raises, and the number of
\* records it hands to logger.debug.
catching_predicate(predicate, entry) ==
    LET r == Call(predicate, entry)
    IN  IF r \in Caught THEN [result |-> "False", logged |-> 1]
        ELSE [result |-> r, logged |-> 0]

RECURSIVE Comprehension(_, _, _, _, _)
\* [entry.package for entry in self if catching_predicate(entry)], from
\* entry i on, with acc collected and `logged` records logged so far; an
\* exception ends it.
Comprehension(entries, predicate, i, acc, logged) ==
    IF i > Len(entries) THEN [kind |-> "return", items |-> acc, logged |-> logged]
    ELSE LET c == catching_predicate(predicate, entries[i])
         IN  IF c.result \notin {"True", "False"}
             THEN [kind |-> "raise", error |-> c.result, logged |-> logged + c.logged]
             ELSE Comprehension(entries, predicate, i + 1,
                                IF c.result = "True" THEN Append(acc, entries[i].package)
                                ELSE acc,
                                logged + c.logged)

\* filter handing the constructor the records of self.bibliography, the
\* view, in place of self._bibliography.
Database_filter_view(self, predicate) ==
    LET c == Comprehension(Database__iter__(self), predicate, 1, <<>>, 0)
        linked == SelectSeq(Database__iter__(self), LAMBDA e : e.bibliography # None)
        records == [i \in 1..Len(linked) |-> linked[i].bibliography]
    IN  IF c.kind = "raise" THEN c
        ELSE LET d == Database__init__(indexes, OwnArg(c.items), IterableArg(records))
             IN  [kind |-> "return", heap |-> d.heap, value |-> d.self, logged |-> c.logged]

\* Database.filter: the exception raised, or the new Database with the heap
\* of index objects after the call.
Database_filter(self, predicate) ==
    LET c == Comprehension(Database__iter__(self), predicate, 1, <<>>, 0)
    IN  IF c.kind = "raise" THEN c
        ELSE LET d == Database__init__(indexes, OwnArg(c.items), IndexArg(self.bibliography))
             IN  [kind |-> "return", heap |-> d.heap, value |-> d.self, logged |-> c.logged]

----------------------------------------------------------------------------
\* Database.bibliography

RECURSIVE BibliographyOf(_)
\* {entry.bibliography.key: entry.bibliography for entry in entries
\*  if entry.bibliography}
BibliographyOf(entries) ==
    IF entries = <<>> THEN [k \in {} |-> None]
    ELSE LET d == BibliographyOf(Front(entries))
             b == Last(entries).bibliography
         IN  IF b = None THEN d
             ELSE [k \in DOMAIN d \cup {b.key} |-> IF k = b.key THEN b ELSE d[k]]

\* The stored index instead of the view over the entries.
Database_bibliography_stored(self) == indexes[self.bibliography]

Database_bibliography(self) == BibliographyOf(Database__iter__(self))

----------------------------------------------------------------------------
\* Database.plot

\* The attributes a Database object has: those __init__ sets and those the
\* class defines.
DatabaseAttributes ==
    {"_packages", "_bibliography", "create_example", "bibliography", "filter",
     "materials", "describe", "plot"}

\* self.<name>: AttributeError unless the object has the attribute.
HasAttribute(name) == name \in DatabaseAttributes

AttributeError(name, traces) ==
    [kind |-> "raise", error |-> "AttributeError", attribute |-> name, traces |-> traces]

RECURSIVE AddTraces(_, _, _)
\* for entry in self: fig.add_trace(Scatter(x=self.df[x_label], ...)), from
\* entry i on, with `traces` traces added so far; then the layout, whose
\* axis titles read self.field_unit(label).
AddTraces(entries, i, traces) ==
    IF i > Len(entries)
    THEN IF HasAttribute("field_unit")
         THEN [kind |-> "return", traces |-> traces]
         ELSE AttributeError("field_unit", traces)
    ELSE IF HasAttribute("df")
         THEN AddTraces(entries, i + 1, traces + 1)
         ELSE AttributeError("df", traces)

\* The message of the exception the guard raises.
UsageMessage ==
    "The database has more than 10 entries. To plot all entries anyway, set force_plot to True"

\* The guard with >= in place of >.
Database_plot_ge(self, force_plot) ==
    IF Database__len__(self) >= PlotThreshold /\ force_plot = FALSE
    THEN [kind |-> "raise", error |-> "Exception", message |-> UsageMessage, traces |-> 0]
    ELSE AddTraces(Database__iter__(self), 1, 0)

Database_plot(self, force_plot) ==
    IF Database__len__(self) > PlotThreshold /\ force_plot = FALSE
    THEN [kind |-> "raise", error |-> "Exception",
          message |-> UsageMessage,
          traces |-> 0]
    ELSE AddTraces(Database__iter__(self), 1, 0)

----------------------------------------------------------------------------
\* Actions

\* list(db)
Iterate ==
    /\ last' = [op |-> "iter", entries |-> Database__iter__(db)]
    /\ UNCHANGED <<data_packages, indexes, db, mutations>>

\* list(db) once more, right after list(db)
IterateAgain ==
    /\ last.op = "iter"
    /\ last' = [op |-> "iter2", first |-> last.entries, entries |-> Database__iter__(db)]
    /\ UNCHANGED <<data_packages, indexes, db, mutations>>

\* len(db)
LenCall ==
    /\ last' = [op |-> "len", value |-> Database__len__(db)]
    /\ UNCHANGED <<data_packages, indexes, db, mutations>>

\* db[id]
GetItem(id) ==
    /\ last' = [op |-> "getitem", identifier |-> id, outcome |-> Database__getitem__(db, id)]
    /\ UNCHANGED <<data_packages, indexes, db, mutations>>

\* db = db.filter(predicate)
Filter(predicate) ==
    \E f \in {Database_filter(db, predicate)} :
        IF f.kind = "raise"
        THEN /\ last' = [op |-> "filter", predicate |-> predicate, outcome |-> f]
             /\ UNCHANGED <<data_packages, indexes, db, mutations>>
        ELSE /\ indexes' = f.heap
             /\ db' = f.value
             /\ last' = [op |-> "filter", predicate |-> predicate,
                         outcome |-> [kind |-> "return", logged |-> f.logged]]
             /\ UNCHANGED <<data_packages, mutations>>

\* db.bibliography
Bibliography ==
    /\ last' = [op |-> "bibliography", value |-> Database_bibliography(db)]
    /\ UNCHANGED <<data_packages, indexes, db, mutations>>

\* db = Database(pk, bib)
Construct(pk, bib) ==
    LET c == Database__init__(<<>>, RefArg, bib)
    IN  /\ data_packages = pk
        /\ indexes = c.heap
        /\ db = c.self
        /\ last = [op |-> "init"]
        /\ mutations = 0

BibArgs == {NoneArg} \cup {IterableArg(rs) : rs \in SeqsUpTo(Records, MaxBib)}

Init == \E pk \in SeqsUpTo(Packages, MaxLen), bib \in BibArgs : Construct(pk, bib)

Next ==
    \/ Iterate
    \/ IterateAgain
    \/ LenCall
    \/ \E id \in Names : GetItem(id)
    \/ \E predicate \in Predicates(NamesOf(db)) : Filter(predicate)
    \/ Bibliography

Spec == Init /\ [][Next]_vars

----------------------------------------------------------------------------
\* The caller changes the list it handed to the constructor.

\* data_packages.append(p)
AppendPackage(p) ==
    /\ mutations < MaxMutations
    /\ Len(data_packages) < MaxLen
    /\ mutations' = mutations + 1
    /\ data_packages' = Append(data_packages, p)
    /\ last' = [op |-> "append"]
    /\ UNCHANGED <<indexes, db>>

\* del data_packages[i]
RemovePackage(i) ==
    /\ mutations < MaxMutations
    /\ i \in 1..Len(data_packages)
    /\ mutations' = mutations + 1
    /\ data_packages' = SubSeq(data_packages, 1, i - 1)
                            \o SubSeq(data_packages, i + 1, Len(data_packages))
    /\ last' = [op |-> "remove"]
    /\ UNCHANGED <<indexes, db>>

NextMut ==
    \/ \E p \in Packages : AppendPackage(p)
    \/ \E i \in 1..MaxLen : RemovePackage(i)
    \/ Iterate
    \/ IterateAgain
    \/ LenCall

SpecMut == Init /\ [][NextMut]_vars

----------------------------------------------------------------------------
\* Plotting databases of up to MaxPlotLen packages.

\* db.plot(force_plot=force_plot)
Plot(force_plot) ==
    /\ last' = [op |-> "plot", force_plot |-> force_plot,
                outcome |-> Database_plot(db, force_plot)]
    /\ UNCHANGED <<data_packages, indexes, db, mutations>>

PlotPackages == {p \in Packages : p.citation_key = 1}

InitPlot == \E pk \in SeqsUpTo(PlotPackages, MaxPlotLen) : Construct(pk, NoneArg)

NextPlot ==
    \/ \E force_plot \in BOOLEAN : Plot(force_plot)
    \/ LenCall

SpecPlot == InitPlot /\ [][NextPlot]_vars

----------------------------------------------------------------------------
\* Properties

\* The number of places of sequence s that hold x.
Occurrences(s, x) == Cardinality({i \in 1..Len(s) : s[i] = x})

\* The record the index of `self` holds under `key`, or None.
Linked(self, key) ==
    IF key \in DOMAIN indexes[self.bibliography]
    THEN indexes[self.bibliography][key] ELSE None

\* es holds one entry per package of ps, in ascending order of name.
OnePerPackageAscending(es, ps) ==
    /\ Len(es) = Len(ps)
    /\ \A p \in Packages :
         Cardinality({i \in 1..Len(es) : es[i].package = p}) = Occurrences(ps, p)
    /\ \A i, j \in 1..Len(es) : i < j => es[i].package.name <= es[j].package.name

\* C1: iterating a database yields one entry per stored package, duplicates
\* included, in ascending order of the first resource's name, and a second
\* iteration of the unchanged database yields the same entries in the same
\* order.
C1_IterationSorted ==
    /\ last.op \in {"iter", "iter2"} => OnePerPackageAscending(last.entries, PackagesOf(db))
    /\ last.op = "iter2" => last.entries = last.first

\* A second iteration of a list that holds a package twice and is stored out
\* of order.
C1_Witness ==
    /\ last.op = "iter2"
    /\ Len(data_packages) = 3
    /\ db.packages.kind = "ref"
    /\ data_packages[1].name > data_packages[2].name
    /\ data_packages[2] = data_packages[3]

\* C2: db[identifier] raises the not-found KeyError naming the identifier
\* when no entry has it, returns the entry when exactly one has it, and
\* raises the ambiguous KeyError when more than one has it; the database is
\* as it was before the call.
C2_LookupOutcomes ==
    [][last'.op = "getitem" =>
         LET ps == PackagesOf(db)
             id == last'.identifier
             o == last'.outcome
             hits == {i \in 1..Len(ps) : identifier(Entry(ps[i], None)) = id}
         IN  /\ Cardinality(hits) = 0 =>
                  /\ o.kind = "raise"
                  /\ o.error = "KeyError"
                  /\ o.message = "No database entry with identifier"
                  /\ o.identifier = id
             /\ Cardinality(hits) = 1 =>
                  /\ o.kind = "return"
                  /\ \A i \in hits :
                       o.value = Entry(ps[i], Linked(db, citation_key(Entry(ps[i], None))))
             /\ Cardinality(hits) > 1 =>
                  /\ o.kind = "raise"
                  /\ o.error = "KeyError"
                  /\ o.message = "The database has more than one entry with identifier"
             /\ UNCHANGED <<data_packages, indexes, db>>]_vars

\* A lookup of an identifier that two entries share.
C2_Witness ==
    /\ last.op = "getitem"
    /\ last.outcome.kind = "raise"
    /\ Cardinality({i \in 1..Len(PackagesOf(db)) : PackagesOf(db)[i].name = last.identifier}) > 1

\* C3, as stated: for every entry e that iterating db yields, db[e.identifier]
\* returns an entry equal to e.
C3_RoundTrip ==
    last.op = "getitem" =>
        \A i \in DOMAIN Database__iter__(db) :
            LET e == Database__iter__(db)[i]
            IN  identifier(e) = last.identifier =>
                    /\ last.outcome.kind = "return"
                    /\ last.outcome.value = e

\* C3, amended: for every entry e that iterating db yields and whose
\* identifier no other entry of db has, db[e.identifier] returns an entry
\* equal to e (package and linked record); when another entry has the
\* identifier the lookup raises the ambiguous KeyError.
C3_RoundTripUnique ==
    last.op = "getitem" =>
        \A i \in DOMAIN Database__iter__(db) :
            LET es == Database__iter__(db)
                others == {j \in DOMAIN es : j # i /\ identifier(es[j]) = identifier(es[i])}
            IN  identifier(es[i]) = last.identifier =>
                    IF others = {}
                    THEN /\ last.outcome.kind = "return"
                         /\ last.outcome.value = es[i]
                    ELSE /\ last.outcome.kind = "raise"
                         /\ last.outcome.error = "KeyError"

\* A lookup that returns an entry with a linked record, from a database of
\* several entries.
C3_Witness ==
    /\ last.op = "getitem"
    /\ last.outcome.kind = "return"
    /\ last.outcome.value.bibliography # None
    /\ Len(PackagesOf(db)) > 1

\* C6, as stated: a plot that passes the guard returns a figure with one
\* trace per entry.
C6_PlotReturnsFigure ==
    (/\ last.op = "plot"
     /\ ~(Len(PackagesOf(db)) > PlotThreshold /\ last.force_plot = FALSE))
        => /\ last.outcome.kind = "return"
           /\ last.outcome.traces = Len(PackagesOf(db))

\* C7: plot raises the usage error naming force_plot, with no trace added,
\* exactly when the database holds more than 10 entries and force_plot is
\* False.
C7_PlotGuard ==
    last.op = "plot" =>
        LET usage == /\ last.outcome.kind = "raise"
                     /\ last.outcome.error = "Exception"
        IN  /\ usage <=> (Len(PackagesOf(db)) > PlotThreshold /\ last.force_plot = FALSE)
            /\ usage => /\ last.outcome.message = UsageMessage
                        /\ last.outcome.traces = 0

\* A plot of 11 entries without force_plot.
C7_Witness ==
    /\ last.op = "plot"
    /\ Len(PackagesOf(db)) = PlotThreshold + 1
    /\ last.force_plot = FALSE
    /\ last.outcome.error = "Exception"

\* C8: db.bibliography holds exactly the records of the index whose key is
\* the citation key of a current entry; it is a part of the index the
\* constructor built, and an entry whose key the index lacks adds nothing.
C8_BibliographyView ==
    last.op = "bibliography" =>
        LET ps == PackagesOf(db)
            index == indexes[1]
            used == {k \in DOMAIN index : \E i \in 1..Len(ps) : ps[i].citation_key = k}
        IN  /\ DOMAIN last.value = used
            /\ \A k \in used : last.value[k] = index[k]

\* The view of a filtered database that has lost every entry of one record
\* of the index and kept an entry of another.
C8_Witness ==
    /\ last.op = "bibliography"
    /\ db.packages.kind = "own"
    /\ DOMAIN last.value # {}
    /\ DOMAIN last.value # DOMAIN indexes[1]
    /\ \E i \in 1..Len(data_packages) :
         data_packages[i].citation_key \in DOMAIN indexes[1] \ DOMAIN last.value

\* C10: whatever the caller has appended to or removed from the list, and
\* whatever was iterated before, an iteration yields one entry per package
\* now in the list, in ascending order of name, a repeated iteration yields
\* the same, and len is the length of the list as it is now.
C10_NoCachedEntries ==
    /\ last.op \in {"iter", "iter2"} => OnePerPackageAscending(last.entries, data_packages)
    /\ last.op = "iter2" => last.entries = last.first
    /\ last.op = "len" => last.value = Len(data_packages)

\* An iteration after two changes of the list, which is stored out of order.
C10_Witness ==
    /\ last.op = "iter"
    /\ mutations = MaxMutations
    /\ Len(data_packages) >= 2
    /\ data_packages[1].name > data_packages[2].name

\* The outcomes of a predicate that filter neither keeps, drops nor catches.
Propagating == Outcomes \ ({"True", "False"} \cup Caught)

\* C4: when the predicate raises nothing but AttributeError and KeyError,
\* db.filter(p) returns a database that holds exactly the packages of the
\* entries of db on which p returned true, so its len is their number; an
\* entry on which p raised AttributeError or KeyError is left out.
C4_FilterProjection ==
    [][last'.op = "filter" =>
         LET es == Database__iter__(db)
             p == last'.predicate
             holds == {i \in 1..Len(es) : Call(p, es[i]) = "True"}
         IN  (\A i \in 1..Len(es) : Call(p, es[i]) \notin Propagating) =>
                 /\ last'.outcome.kind = "return"
                 /\ \A pkg \in Packages :
                      Occurrences(PackagesOf(db)', pkg)
                          = Cardinality({i \in holds : es[i].package = pkg})
                 /\ Database__len__(db)' = Cardinality(holds)]_vars

\* A filter that kept an entry and left one out on a caught error.
C4_Witness ==
    /\ last.op = "filter"
    /\ last.outcome.kind = "return"
    /\ last.outcome.logged >= 1
    /\ Len(PackagesOf(db)) >= 1

\* C5: a filter that returns leaves the caller's package list and the index
\* objects as they were, and the new database holds the index object of the
\* receiver.
C5_FilterFrame ==
    [][(last'.op = "filter" /\ last'.outcome.kind = "return") =>
         /\ data_packages' = data_packages
         /\ indexes' = indexes
         /\ db'.bibliography = db.bibliography]_vars

\* A filter that dropped entries, among them every entry of some record of
\* the index.
C5_Witness ==
    /\ last.op = "filter"
    /\ last.outcome.kind = "return"
    /\ Len(PackagesOf(db)) < Len(data_packages)
    /\ Len(PackagesOf(db)) >= 1
    /\ \E k \in DOMAIN indexes[db.bibliography] :
         /\ \E i \in 1..Len(data_packages) : data_packages[i].citation_key = k
         /\ \A i \in 1..Len(PackagesOf(db)) : PackagesOf(db)[i].citation_key # k

\* C9: when the predicate raises an error other than AttributeError and
\* KeyError on an entry, filter raises that error, returns no database, and
\* leaves the receiver as it was.
C9_OtherErrorsPropagate ==
    [][last'.op = "filter" =>
         LET es == Database__iter__(db)
             p == last'.predicate
             failing == {i \in 1..Len(es) : Call(p, es[i]) \in Propagating}
         IN  failing # {} =>
                 LET first == CHOOSE i \in failing : \A j \in failing : i <= j
                 IN  /\ last'.outcome.kind = "raise"
                     /\ last'.outcome.error = Call(p, es[first])
                     /\ UNCHANGED <<data_packages, indexes, db>>]_vars

\* A filter that raised after it had caught an error on an earlier entry.
C9_Witness ==
    /\ last.op = "filter"
    /\ last.outcome.kind = "raise"
    /\ last.outcome.error \in Propagating
    /\ last.outcome.logged >= 1

====
